---- MODULE Spec2Model ----
(***************************************************************************)
(* Model of the HRMS API of server.py: the employees and attendance        *)
(* collections of the document store, and the request handlers             *)
(* create_employee, delete_employee, mark_attendance, get_attendance and   *)
(* dashboard.  Every `await` on the store is one atomic store operation.   *)
(* Under Spec the handlers of concurrent requests interleave between       *)
(* their awaits; under SeqSpec each request runs to completion before the  *)
(* next one starts; SeededSpec is SeqSpec on a store that earlier requests *)
(* filled; under RaceSpec one Mark proceeds await by await while the other *)
(* requests are served between its steps.                                  *)
(*                                                                         *)
(* Text values are sequences of one-character strings, so that str.strip   *)
(* and the e-mail pattern are computed and not assumed.                    *)
(***************************************************************************)
EXTENDS Integers, Sequences, FiniteSets, TLC

VARIABLES
    employees,   \* db.employees: the set of stored employee documents
    attendance,  \* db.attendance: the set of stored attendance documents
    clock,       \* the next value datetime.now() returns
    fresh,       \* the next generated identifier (uuid4, ObjectId)
    pc,          \* per request slot: the await its handler stands at
    req,         \* per request slot: the request being (or last) served
    local,       \* per request slot: the handler's local variables
    resp,        \* per request slot: the answer to the last request served
    lastMarked   \* history: _id of the record the latest successful Mark wrote

vars == <<employees, attendance, clock, fresh, pc, req, local, resp, lastMarked>>

(* ------------------------------ bounds -------------------------------- *)

\* Number of readings of the wall clock (one per stored timestamp) a run makes.
MaxClock == 3

\* The request slots: requests in flight at the same time.
Procs == {"w1", "w2"}

(* ------------------------------- text --------------------------------- *)

Lower == {"a","b","c","d","e","f","g","h","i","j","k","l","m",
          "n","o","p","q","r","s","t","u","v","w","x","y","z"}
Upper == {"A","B","C","D","E","F","G","H","I","J","K","L","M",
          "N","O","P","Q","R","S","T","U","V","W","X","Y","Z"}
Digit == {"0","1","2","3","4","5","6","7","8","9"}
\* The characters str.strip() removes, among those request bodies use here.
Whitespace == {" ", "\t", "\n", "\r"}

Max(a, b) == IF a > b THEN a ELSE b

\* str.strip(): the text without its leading and trailing whitespace.
Strip(v) ==
    LET keep == {i \in 1..Len(v) : v[i] \notin Whitespace}
    IN  IF keep = {} THEN <<>>
        ELSE LET lo == CHOOSE i \in keep : \A j \in keep : i <= j
                 hi == CHOOSE i \in keep : \A j \in keep : j <= i
             IN  SubSeq(v, lo, hi)

\* not_empty: the validator accepts v iff v and v.strip() are non-empty.
not_empty(v) == v # <<>> /\ Strip(v) # <<>>

\* Minimal length of the top-level domain in the e-mail pattern: {2,}.
TldMinLen == 2

\* re.match(r"^[a-zA-Z0-9._%+-]+@[a-zA-Z0-9.-]+\.[a-zA-Z]{2,}$", v);
\* `$` also matches just before one trailing newline.
LocalChars  == Lower \cup Upper \cup Digit \cup {".", "_", "%", "+", "-"}
DomainChars == Lower \cup Upper \cup Digit \cup {".", "-"}
TldChars    == Lower \cup Upper

validate_email(v) ==
    LET Ends == {Len(v)} \cup
                (IF Len(v) > 0 /\ v[Len(v)] = "\n" THEN {Len(v) - 1} ELSE {})
    IN  \E n \in Ends : \E at \in 1..n : \E dot \in 1..n :
          /\ v[at] = "@"
          /\ v[dot] = "."
          /\ 1 < at
          /\ at + 1 < dot
          /\ dot + TldMinLen <= n
          /\ \A i \in 1..(at - 1) : v[i] \in LocalChars
          /\ \A i \in (at + 1)..(dot - 1) : v[i] \in DomainChars
          /\ \A i \in (dot + 1)..n : v[i] \in TldChars

Present == <<"P","r","e","s","e","n","t">>
Absent  == <<"A","b","s","e","n","t">>

\* validate_status runs on the value not_empty returned (already stripped).
validate_status(v) == v \in {Present, Absent}

\* f"Marked {record['status']}"
Marked(status) == <<"M","a","r","k","e","d"," ">> \o status

Unknown == <<"U","n","k","n","o","w","n">>

(* ------------------------- request bodies ----------------------------- *)

E1 == <<"E","1">>
E2 == <<"E","2">>
Alice == <<"A","l","i","c","e">>
Bob == <<"B","o","b">>
MailA == <<"a","@","c","o",".","i","o">>
MailB == <<"b","@","c","o",".","i","o">>
Eng == <<"E","n","g">>
Ops == <<"O","p","s">>
Day1 == <<"2","0","2","4","-","0","1","-","0","1">>
Day2 == <<"2","0","2","4","-","0","1","-","0","2">>
Late == <<"L","a","t","e">>

RawEmployee(eid, name, mail, dept) ==
    [employee_id |-> eid, full_name |-> name, email |-> mail, department |-> dept]

\* Bodies of POST /employees as they arrive, before validation.
CreateInputs ==
    { RawEmployee(E1, Alice, MailA, Eng),
      RawEmployee(E2, Bob, MailB, Ops),
      RawEmployee(E1, Bob, MailB, Eng),
      RawEmployee(<<" ">> \o E2, Alice, MailA \o <<"\n">>, Eng),
      RawEmployee(E1, <<" ">>, MailA, Eng),
      RawEmployee(E2, Bob, <<"b","@","c","o">>, Ops) }

RawAttendance(eid, date, status) ==
    [employee_id |-> eid, date |-> date, status |-> status]

\* Bodies of POST /attendance as they arrive, before validation.
MarkInputs ==
    { RawAttendance(e, d, s) : e \in {E1, E2}, d \in {Day1, Day2},
                               s \in {Present, Absent} }
    \cup { RawAttendance(E1, Day1 \o <<" ">>, <<" ">> \o Absent),
           RawAttendance(E1, Day1, Late) }

\* Path parameter of DELETE /employees/{employee_id}.
DeleteInputs == {E1, E2}

\* Query parameter of GET /attendance; <<>> stands for an absent parameter.
ListInputs == {<<>>, E1}

\* datetime.now(timezone.utc).strftime("%Y-%m-%d") while the run lasts.
Todays == {Day1}

(* ----------------------------- models -------------------------------- *)

\* EmployeeCreate: the field validators all pass.
EmployeeCreateValid(raw) ==
    /\ not_empty(raw.employee_id)
    /\ not_empty(raw.full_name)
    /\ not_empty(raw.department)
    /\ validate_email(raw.email)

\* EmployeeCreate: the validated model, every field replaced by v.strip().
EmployeeCreate(raw) ==
    [employee_id |-> Strip(raw.employee_id), full_name |-> Strip(raw.full_name),
     email |-> Strip(raw.email), department |-> Strip(raw.department)]

\* AttendanceCreate: not_empty on the three fields, then validate_status.
AttendanceCreateValid(raw) ==
    /\ not_empty(raw.employee_id)
    /\ not_empty(raw.date)
    /\ not_empty(raw.status)
    /\ validate_status(Strip(raw.status))

AttendanceCreate(raw) ==
    [employee_id |-> Strip(raw.employee_id), date |-> Strip(raw.date),
     status |-> Strip(raw.status)]

\* str(uuid.uuid4()) and the store's ObjectId, both drawn from `fresh`.
Uuid(n) == <<"uuid", n>>
ObjectId(n) == n
\* str(record["_id"])
ObjectIdStr(oid) == <<"oid", oid>>

\* Employee(**emp.model_dump())
Employee(emp, n, now) ==
    [id |-> Uuid(n), employee_id |-> emp.employee_id, full_name |-> emp.full_name,
     email |-> emp.email, department |-> emp.department, created_at |-> now]

\* AttendanceRecord(**att.model_dump())
AttendanceRecord(att, n, now) ==
    [id |-> Uuid(n), employee_id |-> att.employee_id, date |-> att.date,
     status |-> att.status, marked_at |-> now]

\* insert_one: the stored document is the dumped model plus the store's _id.
EmployeeDoc(e, oid) ==
    [_id |-> oid, id |-> e.id, employee_id |-> e.employee_id,
     full_name |-> e.full_name, email |-> e.email, department |-> e.department,
     created_at |-> e.created_at]

AttendanceDoc(r, oid) ==
    [_id |-> oid, id |-> r.id, employee_id |-> r.employee_id, date |-> r.date,
     status |-> r.status, marked_at |-> r.marked_at]

\* The projection {"_id": 0} of an attendance document.
WithoutId(r) ==
    [id |-> r.id, employee_id |-> r.employee_id, date |-> r.date,
     status |-> r.status, marked_at |-> r.marked_at]

(* ----------------------------- requests ------------------------------ *)

\* A request as the framework hands it on: the body as received, whether the
\* model's validators accept it, and the validated model if they do.
CreateRequest(raw) ==
    [op |-> "create", raw |-> raw, valid |-> EmployeeCreateValid(raw),
     body |-> IF EmployeeCreateValid(raw) THEN EmployeeCreate(raw) ELSE <<>>]

MarkRequest(raw) ==
    [op |-> "mark", raw |-> raw, valid |-> AttendanceCreateValid(raw),
     body |-> IF AttendanceCreateValid(raw) THEN AttendanceCreate(raw) ELSE <<>>]

DeleteRequest(eid) == [op |-> "delete", employee_id |-> eid]

ListRequest(eid) == [op |-> "list", employee_id |-> eid]

DashRequest(today) == [op |-> "dashboard", today |-> today]

CreateRequests == {CreateRequest(raw) : raw \in CreateInputs}
MarkRequests   == {MarkRequest(raw) : raw \in MarkInputs}
DeleteRequests == {DeleteRequest(eid) : eid \in DeleteInputs}
ListRequests   == {ListRequest(eid) : eid \in ListInputs}
DashRequests   == {DashRequest(today) : today \in Todays}

(* ---------------------------- responses ------------------------------- *)

NoResp == [status |-> 0, body |-> <<>>]
Ok(body) == [status |-> 200, body |-> body]
HTTPException(code, detail) == [status |-> code, body |-> detail]
\* The framework's answer to a body that fails the model's validators.
ValidationError == [status |-> 422, body |-> "validation"]

NoLocal == <<>>

\* The store as one value, and the result of a handler run on it.
DB == [employees |-> employees, attendance |-> attendance,
       clock |-> clock, fresh |-> fresh]

Out(D, r, m) == [db |-> D, resp |-> r, marked |-> m]

(* -------------------------- create_employee --------------------------- *)

\* db.employees.find_one({"employee_id": emp.employee_id}) is truthy.
CreateIdTaken(emps, emp) == \E e \in emps : e.employee_id = emp.employee_id

\* Variant: the second check repeats the employee_id query.
CreateEmailTakenById(emps, emp) == \E e \in emps : e.employee_id = emp.employee_id

\* db.employees.find_one({"email": emp.email}) is truthy.
CreateEmailTaken(emps, emp) == \E e \in emps : e.email = emp.email

\* Employee(...) then insert_one; returns the employee.
CreateInsert(D, emp) ==
    LET employee == Employee(emp, D.fresh, D.clock)
    IN  Out([D EXCEPT !.employees = @ \cup {EmployeeDoc(employee, ObjectId(D.fresh))},
                      !.clock = @ + 1, !.fresh = @ + 1],
            Ok(employee), {})

\* The handler run without interleaving: the set of its possible results.
create_employee(D, rq) ==
    IF ~rq.valid THEN {Out(D, ValidationError, {})}
    ELSE LET emp == rq.body
         IN  IF CreateIdTaken(D.employees, emp)
               THEN {Out(D, HTTPException(409, "Employee ID already exists"), {})}
             ELSE IF CreateEmailTaken(D.employees, emp)
               THEN {Out(D, HTTPException(409, "Email already exists"), {})}
             ELSE {CreateInsert(D, emp)}

(* -------------------------- delete_employee --------------------------- *)

\* delete_one({"employee_id": employee_id}): the collections it may leave,
\* with deleted_count; one matching document goes, whichever the store picks.
DeleteOne(emps, eid) ==
    LET hit == {e \in emps : e.employee_id = eid}
    IN  IF hit = {} THEN {[coll |-> emps, deleted_count |-> 0]}
        ELSE {[coll |-> emps \ {e}, deleted_count |-> 1] : e \in hit}

\* Variant: delete_one in place of delete_many.
DeleteManyOnlyOne(att, eid) ==
    LET hit == {r \in att : r.employee_id = eid}
    IN  IF hit = {} THEN att ELSE att \ {CHOOSE r \in hit : TRUE}

\* db.attendance.delete_many({"employee_id": employee_id})
DeleteMany(att, eid) == {r \in att : r.employee_id # eid}

Deleted == Ok([message |-> "Employee deleted"])

delete_employee(D, eid) ==
    UNION { IF o.deleted_count = 0
              THEN {Out(D, HTTPException(404, "Employee not found"), {})}
              ELSE {Out([D EXCEPT !.employees = o.coll,
                                  !.attendance = DeleteMany(D.attendance, eid)],
                        Deleted, {})}
            : o \in DeleteOne(D.employees, eid) }

(* -------------------------- mark_attendance --------------------------- *)

\* Variant: the employee is not looked up.
MarkEmployeeUnchecked(emps, att) == TRUE

\* db.employees.find_one({"employee_id": att.employee_id}) is truthy.
MarkEmployeeExists(emps, att) == \E e \in emps : e.employee_id = att.employee_id

\* db.attendance.find_one({"employee_id": ..., "date": ...}): the values it
\* may return, {} for None and {r} for a document r.
MarkFindExisting(att, a) ==
    LET hit == {r \in att : r.employee_id = a.employee_id /\ r.date = a.date}
    IN  IF hit = {} THEN {{}} ELSE {{r} : r \in hit}

\* Variant: $set leaves marked_at out.
UpdateOneStatusOnly(att, oid, status, now) ==
    {IF r._id = oid THEN [r EXCEPT !.status = status] ELSE r : r \in att}

\* update_one({"_id": ...}, {"$set": {status, marked_at}})
UpdateOne(att, oid, status, now) ==
    {IF r._id = oid THEN [r EXCEPT !.status = status, !.marked_at = now] ELSE r
       : r \in att}

\* {**existing_record, "status": att.status, "message": "Attendance updated"}
MarkUpdated(existing, a) ==
    [_id |-> existing._id, id |-> existing.id, employee_id |-> existing.employee_id,
     date |-> existing.date, status |-> a.status, marked_at |-> existing.marked_at,
     message |-> "Attendance updated"]

\* The branch `if existing_record:`.
MarkUpdate(D, a, existing) ==
    Out([D EXCEPT !.attendance = UpdateOne(@, existing._id, a.status, D.clock),
                  !.clock = @ + 1],
        Ok(MarkUpdated(existing, a)),
        {existing._id})

\* The branch `else:`: AttendanceRecord(...) then insert_one; returns the record.
MarkInsert(D, a) ==
    LET record == AttendanceRecord(a, D.fresh, D.clock)
    IN  Out([D EXCEPT !.attendance = @ \cup {AttendanceDoc(record, ObjectId(D.fresh))},
                      !.clock = @ + 1, !.fresh = @ + 1],
            Ok(record),
            {ObjectId(D.fresh)})

\* Variant: no upsert, every mark is inserted.
MarkAlwaysInsert(D, a, found) == MarkInsert(D, a)

MarkWrite(D, a, found) ==
    IF found # {} THEN MarkUpdate(D, a, CHOOSE r \in found : TRUE)
    ELSE MarkInsert(D, a)

mark_attendance(D, rq) ==
    IF ~rq.valid THEN {Out(D, ValidationError, {})}
    ELSE LET a == rq.body
         IN  IF ~MarkEmployeeExists(D.employees, a)
               THEN {Out(D, HTTPException(404, "Employee not found"), {})}
             ELSE {MarkWrite(D, a, found) : found \in MarkFindExisting(D.attendance, a)}

(* --------------------------- get_attendance --------------------------- *)

\* Cursor.to_list(n): at most n of the documents.
ToList(S, n) ==
    IF Cardinality(S) <= n THEN {S} ELSE {T \in SUBSET S : Cardinality(T) = n}

AttendanceListCap == 5000

\* find(query, {"_id": 0}).to_list(5000); an empty employee_id means no filter.
get_attendance(D, eid) ==
    LET hit == IF eid # <<>> THEN {r \in D.attendance : r.employee_id = eid}
               ELSE D.attendance
    IN  {Out(D, Ok({WithoutId(r) : r \in l}), {}) : l \in ToList(hit, AttendanceListCap)}

(* ------------------------------ dashboard ----------------------------- *)

TodayListCap == 5000
RecentLimit == 5

\* db.employees.count_documents({})
DashTotal(emps) == Cardinality(emps)

\* db.attendance.find({"date": today}).to_list(5000)
DashTodayRecords(att, today) == ToList({r \in att : r.date = today}, TodayListCap)

\* sum(1 for r in today_records if r.get("status") == status)
DashCount(today_records, status) ==
    Cardinality({r \in today_records : r.status = status})

\* The $group pipeline, as the dictionary department -> count.
DashBreakdown(emps) ==
    [d \in {e.department : e \in emps} |->
        Cardinality({e \in emps : e.department = d})]

\* The first n documents of S by marked_at descending; documents with equal
\* marked_at come in whichever order the store yields them.
RECURSIVE SortedTake(_, _)
SortedTake(S, n) ==
    IF n = 0 \/ S = {} THEN {<<>>}
    ELSE UNION { {<<r>> \o t : t \in SortedTake(S \ {r}, n - 1)}
                 : r \in {x \in S : \A y \in S : y.marked_at <= x.marked_at} }

\* db.attendance.find().sort("marked_at", -1).limit(5)
DashCursor(att) == SortedTake(att, RecentLimit)

\* emp["full_name"] if emp else "Unknown", emp being what find_one may return.
DashLookup(emps, record) ==
    LET hit == {e \in emps : e.employee_id = record.employee_id}
    IN  IF hit = {} THEN {Unknown} ELSE {e.full_name : e \in hit}

\* One entry of recent_logs.
DashEntry(record, name) ==
    [id |-> ObjectIdStr(record._id), action |-> Marked(record.status),
     employee |-> name, time |-> record.marked_at]

\* The loop `async for record in recent_activity_cursor`, run on one store state.
RECURSIVE DashLogs(_, _)
DashLogs(emps, cursor) ==
    IF cursor = <<>> THEN {<<>>}
    ELSE { <<DashEntry(Head(cursor), n)>> \o t :
             n \in DashLookup(emps, Head(cursor)), t \in DashLogs(emps, Tail(cursor)) }

\* Variant: the difference without the clamp.
DashUnmarkedSigned(total, present, absent) == total - present - absent

\* "unmarked_today": max(total_employees - present - absent, 0)
DashUnmarked(total, present, absent) == Max(total - present - absent, 0)

\* The returned dictionary.
DashResult(total, present, absent, breakdown, logs) ==
    Ok([total_employees |-> total, present_today |-> present,
        absent_today |-> absent,
        unmarked_today |-> DashUnmarked(total, present, absent),
        department_breakdown |-> breakdown, recent_activity |-> logs])

dashboard(D, today) ==
    { Out(D, DashResult(DashTotal(D.employees), DashCount(recs, Present),
                        DashCount(recs, Absent), DashBreakdown(D.employees), logs),
          {})
      : recs \in DashTodayRecords(D.attendance, today),
        logs \in UNION {DashLogs(D.employees, c) : c \in DashCursor(D.attendance)} }

(* ------------------------- the state machine -------------------------- *)

\* The store is empty and no request has been received.
Init ==
    /\ employees = {}
    /\ attendance = {}
    /\ clock = 1
    /\ fresh = 1
    /\ pc = [p \in Procs |-> "idle"]
    /\ req = [p \in Procs |-> [op |-> "none"]]
    /\ local = [p \in Procs |-> NoLocal]
    /\ resp = [p \in Procs |-> NoResp]
    /\ lastMarked = {}

Free(p) == pc[p] \in {"idle", "done"}

WriterPcs == {"create_find_email", "create_insert",
              "mark_find_existing", "mark_write"}

\* A request that may read the clock is received only while readings remain
\* for it and for the requests already in flight.
CanWrite == clock + Cardinality({q \in Procs : pc[q] \in WriterPcs}) <= MaxClock

StoreUnchanged == UNCHANGED <<employees, attendance, clock, fresh, lastMarked>>

SetStore(D) ==
    /\ employees' = D.employees
    /\ attendance' = D.attendance
    /\ clock' = D.clock
    /\ fresh' = D.fresh

\* p moves to `to` with request r and locals l.
Goto(p, to, r, l) ==
    /\ pc' = [pc EXCEPT ![p] = to]
    /\ req' = [req EXCEPT ![p] = r]
    /\ local' = [local EXCEPT ![p] = l]
    /\ resp' = [resp EXCEPT ![p] = NoResp]

\* p answers its request with r.
Return(p, r) ==
    /\ pc' = [pc EXCEPT ![p] = "done"]
    /\ local' = [local EXCEPT ![p] = NoLocal]
    /\ resp' = [resp EXCEPT ![p] = r]
    /\ UNCHANGED req

\* p receives a request and answers it at once with r.
Answer(p, rq, r) ==
    /\ pc' = [pc EXCEPT ![p] = "done"]
    /\ req' = [req EXCEPT ![p] = rq]
    /\ local' = [local EXCEPT ![p] = NoLocal]
    /\ resp' = [resp EXCEPT ![p] = r]

\* A handler run to completion by p: the store and the answer of one result.
Complete(p, rq, out) ==
    /\ SetStore(out.db)
    /\ lastMarked' = IF out.marked # {} THEN out.marked ELSE lastMarked
    /\ Answer(p, rq, out.resp)

(* ---- create_employee, one store operation per step ---- *)


\* POST /employees arrives; validation, then find_one by employee_id.
CreateFindId(p) ==
    /\ Free(p) /\ CanWrite
    /\ \E rq \in CreateRequests :
         IF ~rq.valid THEN Answer(p, rq, ValidationError)
         ELSE IF CreateIdTaken(employees, rq.body)
           THEN Answer(p, rq, HTTPException(409, "Employee ID already exists"))
         ELSE Goto(p, "create_find_email", rq, NoLocal)
    /\ StoreUnchanged

\* find_one by email.
CreateFindEmail(p) ==
    /\ pc[p] = "create_find_email"
    /\ IF CreateEmailTaken(employees, req[p].body)
         THEN Return(p, HTTPException(409, "Email already exists"))
         ELSE Goto(p, "create_insert", req[p], NoLocal)
    /\ StoreUnchanged

\* insert_one.
CreateInsertStep(p) ==
    /\ pc[p] = "create_insert"
    /\ LET out == CreateInsert(DB, req[p].body)
       IN  SetStore(out.db) /\ Return(p, out.resp)
    /\ UNCHANGED lastMarked

(* ---- delete_employee ---- *)

\* DELETE /employees/{employee_id} arrives; delete_one.
DeleteOneStep(p) ==
    /\ Free(p)
    /\ \E rq \in DeleteRequests : \E o \in DeleteOne(employees, rq.employee_id) :
         IF o.deleted_count = 0
           THEN /\ Answer(p, rq, HTTPException(404, "Employee not found"))
                /\ UNCHANGED employees
           ELSE /\ Goto(p, "delete_many", rq, NoLocal)
                /\ employees' = o.coll
    /\ UNCHANGED <<attendance, clock, fresh, lastMarked>>

\* delete_many on the attendance collection.
DeleteManyStep(p) ==
    /\ pc[p] = "delete_many"
    /\ attendance' = DeleteMany(attendance, req[p].employee_id)
    /\ Return(p, Deleted)
    /\ UNCHANGED <<employees, clock, fresh, lastMarked>>

(* ---- mark_attendance ---- *)


\* POST /attendance arrives; validation, then find_one on employees.
MarkFindEmployee(p) ==
    /\ Free(p) /\ CanWrite
    /\ \E rq \in MarkRequests :
         IF ~rq.valid THEN Answer(p, rq, ValidationError)
         ELSE IF ~MarkEmployeeExists(employees, rq.body)
           THEN Answer(p, rq, HTTPException(404, "Employee not found"))
         ELSE Goto(p, "mark_find_existing", rq, NoLocal)
    /\ StoreUnchanged

\* find_one on attendance by (employee_id, date).
MarkFindExistingStep(p) ==
    /\ pc[p] = "mark_find_existing"
    /\ \E found \in MarkFindExisting(attendance, req[p].body) :
         Goto(p, "mark_write", req[p], [existing_record |-> found])
    /\ StoreUnchanged

\* update_one or insert_one, and the return.
MarkWriteStep(p) ==
    /\ pc[p] = "mark_write"
    /\ LET out == MarkWrite(DB, req[p].body, local[p].existing_record)
       IN  /\ SetStore(out.db)
           /\ lastMarked' = out.marked
           /\ Return(p, out.resp)

(* ---- get_attendance ---- *)

\* GET /attendance: one find.
ListStep(p) ==
    /\ Free(p)
    /\ \E rq \in ListRequests : \E out \in get_attendance(DB, rq.employee_id) :
         Answer(p, rq, out.resp)
    /\ StoreUnchanged

(* ---- dashboard ---- *)

\* GET /dashboard arrives; today is read, then count_documents.
DashCountStep(p) ==
    /\ Free(p)
    /\ \E rq \in DashRequests :
         Goto(p, "dash_today", rq,
              [total_employees |-> DashTotal(employees)])
    /\ StoreUnchanged

\* find today's records and count them by status.
DashTodayStep(p) ==
    /\ pc[p] = "dash_today"
    /\ \E recs \in DashTodayRecords(attendance, req[p].today) :
         Goto(p, "dash_dept", req[p],
              [total_employees |-> local[p].total_employees,
               present |-> DashCount(recs, Present),
               absent |-> DashCount(recs, Absent)])
    /\ StoreUnchanged

\* The aggregation by department.
DashDeptStep(p) ==
    /\ pc[p] = "dash_dept"
    /\ Goto(p, "dash_cursor", req[p],
            [total_employees |-> local[p].total_employees,
             present |-> local[p].present, absent |-> local[p].absent,
             department_breakdown |-> DashBreakdown(employees)])
    /\ StoreUnchanged

DashReturn(p, l, logs) ==
    Return(p, DashResult(l.total_employees, l.present, l.absent,
                         l.department_breakdown, logs))

\* The cursor yields its (at most five) documents on the first iteration.
DashCursorStep(p) ==
    /\ pc[p] = "dash_cursor"
    /\ \E c \in DashCursor(attendance) :
         IF c = <<>> THEN DashReturn(p, local[p], <<>>)
         ELSE Goto(p, "dash_lookup", req[p],
                   [total_employees |-> local[p].total_employees,
                    present |-> local[p].present, absent |-> local[p].absent,
                    department_breakdown |-> local[p].department_breakdown,
                    cursor |-> c, recent_logs |-> <<>>])
    /\ StoreUnchanged

\* One iteration of the loop: find_one on employees, append to recent_logs.
DashLookupStep(p) ==
    /\ pc[p] = "dash_lookup"
    /\ \E n \in DashLookup(employees, Head(local[p].cursor)) :
         LET logs == Append(local[p].recent_logs, DashEntry(Head(local[p].cursor), n))
         IN  IF Tail(local[p].cursor) = <<>> THEN DashReturn(p, local[p], logs)
             ELSE Goto(p, "dash_lookup", req[p],
                       [local[p] EXCEPT !.cursor = Tail(@), !.recent_logs = logs])
    /\ StoreUnchanged

(* ---- concurrent requests ---- *)

Next ==
    \E p \in Procs :
        \/ CreateFindId(p) \/ CreateFindEmail(p) \/ CreateInsertStep(p)
        \/ DeleteOneStep(p) \/ DeleteManyStep(p)
        \/ MarkFindEmployee(p) \/ MarkFindExistingStep(p) \/ MarkWriteStep(p)
        \/ ListStep(p)
        \/ DashCountStep(p) \/ DashTodayStep(p) \/ DashDeptStep(p)
        \/ DashCursorStep(p) \/ DashLookupStep(p)

Spec == Init /\ [][Next]_vars

(* ---- requests run one at a time ---- *)

\* The slot that serves every request when requests do not overlap.
Worker == CHOOSE p \in Procs : TRUE

SeqCreate ==
    /\ CanWrite
    /\ \E rq \in CreateRequests : \E out \in create_employee(DB, rq) :
         Complete(Worker, rq, out)

SeqDelete ==
    \E rq \in DeleteRequests : \E out \in delete_employee(DB, rq.employee_id) :
        Complete(Worker, rq, out)

SeqMark ==
    /\ CanWrite
    /\ \E rq \in MarkRequests : \E out \in mark_attendance(DB, rq) :
         Complete(Worker, rq, out)

SeqList ==
    \E rq \in ListRequests : \E out \in get_attendance(DB, rq.employee_id) :
        Complete(Worker, rq, out)

SeqDashboard ==
    \E rq \in DashRequests : \E out \in dashboard(DB, rq.today) :
        Complete(Worker, rq, out)

SeqNext == SeqCreate \/ SeqDelete \/ SeqMark \/ SeqList \/ SeqDashboard

SeqSpec == Init /\ [][SeqNext]_vars

(* ---- one request in steps, the others served between its steps ---- *)

\* The slot whose Mark request proceeds one store operation at a time.
Racer == CHOOSE p \in Procs : p # Worker

RaceMark ==
    \/ MarkFindEmployee(Racer)
    \/ MarkFindExistingStep(Racer)
    \/ MarkWriteStep(Racer)

RaceNext == SeqNext \/ RaceMark

RaceSpec == Init /\ [][RaceNext]_vars

(* ---- requests run one at a time on a store earlier requests filled ---- *)

Old1 == <<"2","0","2","3","-","1","2","-","3","0">>
Old2 == <<"2","0","2","3","-","1","2","-","3","1">>

\* The requests served before the run starts: two employees, four marks.
SeedRequests ==
    << CreateRequest(RawEmployee(E1, Alice, MailA, Eng)),
       CreateRequest(RawEmployee(E2, Bob, MailB, Ops)),
       MarkRequest(RawAttendance(E1, Old1, Present)),
       MarkRequest(RawAttendance(E2, Old1, Absent)),
       MarkRequest(RawAttendance(E1, Old2, Present)),
       MarkRequest(RawAttendance(E2, Old2, Present)) >>

Handle(D, rq) ==
    CASE rq.op = "create" -> create_employee(D, rq)
      [] rq.op = "delete" -> delete_employee(D, rq.employee_id)
      [] rq.op = "mark" -> mark_attendance(D, rq)
      [] rq.op = "list" -> get_attendance(D, rq.employee_id)
      [] rq.op = "dashboard" -> dashboard(D, rq.today)

RECURSIVE Serve(_, _)
Serve(o, rqs) ==
    IF rqs = <<>> THEN o
    ELSE Serve(CHOOSE n \in Handle(o.db, Head(rqs)) : TRUE, Tail(rqs))

\* The store after SeedRequests, served one at a time from the empty store;
\* their timestamps and identifiers precede those of the run.
Seeded ==
    Serve(Out([employees |-> {}, attendance |-> {},
               clock |-> 1 - Len(SeedRequests), fresh |-> 1 - Len(SeedRequests)],
              NoResp, {}),
          SeedRequests)

InitSeeded ==
    /\ employees = Seeded.db.employees
    /\ attendance = Seeded.db.attendance
    /\ clock = Seeded.db.clock
    /\ fresh = Seeded.db.fresh
    /\ pc = [p \in Procs |-> "idle"]
    /\ req = [p \in Procs |-> [op |-> "none"]]
    /\ local = [p \in Procs |-> NoLocal]
    /\ resp = [p \in Procs |-> NoResp]
    /\ lastMarked = Seeded.marked

SeededSpec == InitSeeded /\ [][SeqNext]_vars

(* ------------------------------ properties ---------------------------- *)

Served(p, op) == pc[p] = "done" /\ req[p].op = op

SamePair(r, a) == r.employee_id = a.employee_id /\ r.date = a.date

\* C1: under any interleaving of concurrent Mark requests the ledger holds at
\* most one record per (employee_id, date) pair.
C1_OneRecordPerPair ==
    \A r1, r2 \in attendance : SamePair(r1, r2) => r1 = r2

\* C2: under any interleaving of concurrent Create requests no two employee
\* records share an employee_id and no two share an email.
C2_UniqueEmployees ==
    \A e1, e2 \in employees :
        (e1.employee_id = e2.employee_id \/ e1.email = e2.email) => e1 = e2

\* C3: requests one at a time: when a successful Mark(e, d, s1) is followed by
\* Mark(e, d, s2), the second succeeds, the ledger then holds exactly one
\* record for (e, d), that record has status s2 and the id the first call
\* returned, and the second call's result has status s2.
C3_MarkTwice ==
    [][ ( /\ Served(Worker, "mark")
          /\ resp[Worker].status = 200
          /\ req'[Worker].op = "mark"
          /\ req'[Worker].valid
          /\ SamePair(req'[Worker].body, req[Worker].body) )
        => LET a == req'[Worker].body
               hit == {r \in attendance' : SamePair(r, a)}
           IN  /\ resp'[Worker].status = 200
               /\ Cardinality(hit) = 1
               /\ \A r \in hit : r.status = a.status /\ r.id = resp[Worker].body.id
               /\ resp'[Worker].body.status = a.status
               /\ resp'[Worker].body.id = resp[Worker].body.id
      ]_vars

\* C3 witness: a Mark has just updated the record an earlier Mark created.
C3_Witness ==
    /\ Served(Worker, "mark")
    /\ resp[Worker].status = 200
    /\ "message" \in DOMAIN resp[Worker].body
    /\ resp[Worker].body.status = Absent
    /\ \E r \in attendance : r.id = resp[Worker].body.id /\ r.status = Absent

\* C4: requests one at a time: Delete(e) for an employee e of the directory
\* succeeds, removes every employee record and every attendance record with
\* employee_id e and nothing else, and List attendance filtered to e, served
\* next, returns the empty list.
C4_DeleteCascades ==
    [][ /\ ( /\ req'[Worker].op = "delete"
             /\ \E x \in employees : x.employee_id = req'[Worker].employee_id )
           => LET e == req'[Worker].employee_id
                  after == [employees |-> employees', attendance |-> attendance',
                            clock |-> clock', fresh |-> fresh']
              IN  /\ resp'[Worker] = Deleted
                  /\ employees' = {x \in employees : x.employee_id # e}
                  /\ attendance' = {r \in attendance : r.employee_id # e}
                  /\ \A out \in get_attendance(after, e) : out.resp.body = {}
        /\ ( /\ Served(Worker, "delete")
             /\ resp[Worker].status = 200
             /\ req'[Worker].op = "list"
             /\ req'[Worker].employee_id = req[Worker].employee_id )
           => resp'[Worker].body = {}
      ]_vars

\* C4 witness: an employee with attendance records has just been deleted
\* while another employee and that employee's records remain.
C4_Witness ==
    /\ Served(Worker, "delete")
    /\ resp[Worker].status = 200
    /\ Cardinality(Seeded.db.attendance \ attendance) >= 2
    /\ employees # {}
    /\ \E r \in attendance : \E x \in employees : x.employee_id = r.employee_id

\* C5 as stated: requests one at a time: a Create whose employee_id or email
\* equals that of an employee in the directory fails with 409 whatever its
\* other field values are, and leaves both collections unchanged.
C5_ConflictWhatever ==
    [][ ( /\ req'[Worker].op = "create"
          /\ \E x \in employees : \/ x.employee_id = req'[Worker].raw.employee_id
                                  \/ x.email = req'[Worker].raw.email )
        => /\ resp'[Worker].status = 409
           /\ employees' = employees
           /\ attendance' = attendance
      ]_vars

\* C5 amended: requests one at a time: a Create whose employee_id or email
\* equals that of an employee in the directory leaves both collections
\* unchanged and fails: with 409 whatever its other field values are when the
\* body passes validation, with 422 when it does not.
C5_ConflictWhenValid ==
    [][ ( /\ req'[Worker].op = "create"
          /\ \E x \in employees : \/ x.employee_id = req'[Worker].raw.employee_id
                                  \/ x.email = req'[Worker].raw.email )
        => /\ resp'[Worker].status = IF req'[Worker].valid THEN 409 ELSE 422
           /\ employees' = employees
           /\ attendance' = attendance
      ]_vars

\* C5 witness: a valid Create with an unused employee_id has just been refused
\* for its email.
C5_Witness ==
    /\ Served(Worker, "create")
    /\ req[Worker].valid
    /\ resp[Worker].status = 409
    /\ resp[Worker].body = "Email already exists"
    /\ \A x \in employees : x.employee_id # req[Worker].body.employee_id
    /\ \E x \in employees : /\ x.email = req[Worker].raw.email
                            /\ x.department # req[Worker].body.department

\* C6: in every reachable state, stale attendance data included, a dashboard
\* just answered has unmarked_today = max(total_employees - present_today -
\* absent_today, 0), which is never negative.
C6_UnmarkedSaturates ==
    \A p \in Procs :
        Served(p, "dashboard") =>
            LET b == resp[p].body
                d == b.total_employees - b.present_today - b.absent_today
            IN  /\ b.unmarked_today = (IF d > 0 THEN d ELSE 0)
                /\ b.unmarked_today >= 0

\* C6 witness: a dashboard counts more marks of today than employees, over a
\* ledger holding a record of an employee that no longer exists.
C6_Witness ==
    \E p \in Procs :
        /\ Served(p, "dashboard")
        /\ resp[p].body.present_today + resp[p].body.absent_today
             > resp[p].body.total_employees
        /\ resp[p].body.unmarked_today = 0
        /\ \E r \in attendance : \A x \in employees : x.employee_id # r.employee_id

C9_ReturnsMerged ==
    ( /\ Served(Worker, "mark")
      /\ resp[Worker].status = 200
      /\ "message" \in DOMAIN resp[Worker].body )
    => \E r \in attendance :
           /\ r._id = resp[Worker].body._id
           /\ r.id = resp[Worker].body.id
           /\ r.employee_id = resp[Worker].body.employee_id
           /\ r.date = resp[Worker].body.date
           /\ r.status = resp[Worker].body.status
           /\ r.marked_at = resp[Worker].body.marked_at

\* C10: under any interleaving of Mark and Delete requests, whenever no
\* request is in progress every attendance record belongs to an employee of
\* the directory.
C10_NoOrphans ==
    (\A p \in Procs : Free(p)) =>
        \A r \in attendance : \E x \in employees : x.employee_id = r.employee_id

====
